---- MODULE Spec2Model ----
(***************************************************************************)
(* SEFI@Home work-unit lifecycle engine.                                   *)
(*                                                                         *)
(* WorkUnitGenerator (src/src/sefi/generator/units.py): unit generation    *)
(* for verify_finding and decision_chain units and the in-memory           *)
(* assignment ledger.  ValidationLayer (src/src/sefi/validation/layer.py): *)
(* the PII / provenance / deduplication pipeline over the FindingsStore    *)
(* (src/src/sefi/store/findings.py).  Distribution API                     *)
(* (src/src/sefi/api/routes.py): get_work and post_result.                 *)
(*                                                                         *)
(* Document identifiers are records [fmt, n]: fmt = "efta" is a string     *)
(* "EFTA" followed by the 8 digits of n, fmt = "malformed" a string that   *)
(* does not have that shape, fmt = "media" a string ending in one of the   *)
(* excluded media suffixes, fmt = "absent" a missing field.  Dates are     *)
(* records [kind, day]: day is the ordinal of the calendar day.  Unit ids  *)
(* and finding ids are numbers standing for the 12 hex digits drawn from   *)
(* uuid4; the type prefix is the unit's type field.                        *)
(***************************************************************************)
EXTENDS Integers, Sequences, FiniteSets, TLC

\* ------------------------------------------------------------------------
\* Program constants
\* ------------------------------------------------------------------------
DS10_DATASET == 10
DC_BATCH_MIN == 20
DC_BATCH_MAX == 50
DC_WINDOW_DAYS == 30
DefaultDataset == 9
DEADLINE_HOURS == 24

None == "None"

\* ------------------------------------------------------------------------
\* Bounds of the model
\* ------------------------------------------------------------------------
MaxUnits == 2

MaxFindings == 2

\* The clock advances TickHours at a time, MaxTicks times at most.
MaxTicks == 3

TickHours == 12

Workers == {"worker-A", "worker-B"}

\* ------------------------------------------------------------------------
\* Generic helpers (Python dict operations)
\* ------------------------------------------------------------------------
Put(f, k, v) == [x \in (DOMAIN f) \cup {k} |-> IF x = k THEN v ELSE f[x]]

Del(f, k) == [x \in (DOMAIN f) \ {k} |-> f[x]]

EmptyMap == [x \in {} |-> None]

Range(s) == {s[i] : i \in DOMAIN s}

SetMin(S) == CHOOSE x \in S : \A y \in S : x <= y

MinOf(a, b) == IF a <= b THEN a ELSE b

\* ------------------------------------------------------------------------
\* Input data
\* ------------------------------------------------------------------------
Efta(n) == [fmt |-> "efta", n |-> n]

MediaId(n) == [fmt |-> "media", n |-> n]

AbsentId == [fmt |-> "absent", n |-> 0]

PlainDate(d) == [kind |-> "date", day |-> d]

Claim(id, text, eftas, datasets) ==
    [claim_id |-> id, claim |-> text, cited_eftas |-> eftas,
     primary_datasets |-> datasets]

Rel(id, d, ds) == [efta_number |-> id, efta_source |-> AbsentId, date |-> d, dataset |-> ds]

\* Two ordinary claims that cite a common document, and a claim of the
\* media dataset between them.
ClaimsPlain ==
    << Claim("c1", "claim one", <<Efta(1)>>, <<9>>),
       Claim("cm", "media claim", <<Efta(7)>>, <<DS10_DATASET>>),
       Claim("c2", "claim two", <<Efta(1), Efta(2)>>, <<9, 9>>) >>

\* Two different claims that carry the same claim_id.
ClaimsSameId ==
    << Claim("c1", "claim one", <<Efta(1)>>, <<9>>),
       Claim("c1", "claim one bis", <<Efta(3)>>, <<9>>) >>

ClaimDatasets == {ClaimsPlain, ClaimsSameId}

\* 72 records of one day: documents 1..50, then documents 1 and 2 again,
\* then documents 51..70.
RelsOneDay ==
    [i \in 1..72 |->
        Rel(Efta(IF i <= 50 THEN i ELSE IF i <= 52 THEN i - 50 ELSE i - 2),
            PlainDate(100), 0)]

\* Two 30-day windows: 21 records on days 100..120 (documents 1..21, one of
\* them a media file) and 20 records on day 150 (documents 31..50).
RelsTwoWindows ==
    [i \in 1..41 |->
        IF i <= 21
        THEN Rel(IF i = 5 THEN MediaId(i) ELSE Efta(i), PlainDate(99 + i), 9)
        ELSE Rel(Efta(i + 9), PlainDate(150), 9)]

\* Claim lists whose second claim cannot be built into a unit: one cites
\* no document, the other has more cited ids than datasets.
UnbuildableClaimDatasets ==
    { << Claim("c1", "claim one", <<Efta(1)>>, <<9>>),
         Claim("c5", "claim without citations", << >>, << >>) >>,
      << Claim("c1", "claim one", <<Efta(1)>>, <<9>>),
         Claim("c6", "claim with one dataset", <<Efta(1), Efta(2)>>, <<9>>) >> }

\* A claim of the media dataset and a claim that cites an image file,
\* ahead of two ordinary claims.
ClaimsMedia ==
    << Claim("cm", "media claim", <<Efta(7)>>, <<DS10_DATASET>>),
       Claim("cj", "image claim", <<Efta(8), MediaId(9)>>, <<9, 9>>),
       Claim("c1", "claim one", <<Efta(1)>>, <<9>>),
       Claim("c2", "claim two", <<Efta(1), Efta(2)>>, <<9, 9>>) >>

\* 23 records of one day: documents 1..10, a record of the media dataset,
\* a record whose document id is a media file, a record whose source id is
\* a media file, documents 11..20.
RelsMedia ==
    [i \in 1..23 |->
        IF i <= 10 THEN Rel(Efta(i), PlainDate(100), 9)
        ELSE IF i = 11 THEN Rel(Efta(30), PlainDate(100), DS10_DATASET)
        ELSE IF i = 12 THEN Rel(MediaId(31), PlainDate(100), 9)
        ELSE IF i = 13 THEN [Rel(Efta(32), PlainDate(100), 9)
                                EXCEPT !.efta_source = MediaId(33)]
        ELSE Rel(Efta(i - 3), PlainDate(100), 9)]

\* 80 records out of date order, one document each.  Documents 1..3 and
\* 79..80 fall on days 100..129; record 4 has a date that does not parse,
\* record 5 has no document id and the earliest date of all, record 6 has
\* an empty date; documents 7..58 are spread over days 130..159 and
\* documents 59..78 over days 160..164.
RelsBuckets ==
    [i \in 1..80 |->
        IF i = 1 THEN Rel(Efta(1), PlainDate(129), 9)
        ELSE IF i = 2 THEN Rel(Efta(2), PlainDate(100), 9)
        ELSE IF i = 3 THEN Rel(Efta(3), [kind |-> "datetimeZ", day |-> 110], 9)
        ELSE IF i = 4 THEN Rel(Efta(4), [kind |-> "garbage", day |-> 95], 9)
        ELSE IF i = 5 THEN Rel(AbsentId, PlainDate(90), 9)
        ELSE IF i = 6 THEN Rel(Efta(6), [kind |-> "empty", day |-> 0], 9)
        ELSE IF i <= 58 THEN Rel(Efta(i), PlainDate(130 + ((7 * i) % DC_WINDOW_DAYS)), 9)
        ELSE IF i <= 78 THEN Rel(Efta(i), PlainDate(160 + (i % 5)), 9)
        ELSE Rel(Efta(i), [kind |-> "datetime", day |-> 22 + i], 9)]

\* n records of one day, one document each.
SameDayRecords(n) == [i \in 1..n |-> Rel(Efta(i), PlainDate(100), 9)]

\* Datasets around the batch limits: one record short of the minimum, the
\* minimum, and ten records more than the maximum.
BoundaryDatasets ==
    {SameDayRecords(DC_BATCH_MIN - 1), SameDayRecords(DC_BATCH_MIN),
     SameDayRecords(DC_BATCH_MAX + 10)}

RelDatasets == {RelsOneDay, RelsTwoWindows, << >>}

\* Threads that may call into one generator / one validation layer.
Threads == {1, 2}

\* A thread that is in no call.
IdleThread == [pc |-> "idle", op |-> "none", arg |-> [unit_id |-> 0],
               seen |-> [none |-> 0], result |-> "none", out |-> 0]

AllIdle == [t \in Threads |-> IdleThread]

\* ------------------------------------------------------------------------
\* State
\* ------------------------------------------------------------------------
VARIABLES
    claims,            \* WorkUnitGenerator._claims (filtered, fixed)
    relationships,     \* WorkUnitGenerator._relationships (filtered, fixed)
    assignments,       \* _assignments: unit_id -> worker_id or None
    completed,         \* _completed: set of unit_id
    unit_to_claim,     \* _unit_to_claim: unit_id -> claim record
    claim_to_unit,     \* _claim_to_unit: claim_id -> unit_id
    unit_to_doc_keys,  \* _unit_to_doc_keys: unit_id -> set of efta_number
    active_dc_keys,    \* _active_dc_keys: set of efta_number
    units,             \* every WorkUnit returned so far, by unit_id
    assigned_by,       \* unit_id -> worker of each successful assignment
    findings,          \* rows of the findings table, in insertion order
    call,              \* the last call made: operation and arguments
    ret,               \* what the last call returned or raised
    threads,           \* per thread: the call it is in and where it stands
    now                \* datetime.now(): hours since the generator was built

ledger == <<assignments, completed, unit_to_claim, claim_to_unit,
            unit_to_doc_keys, active_dc_keys, units>>

inputs == <<claims, relationships>>

vars == <<claims, relationships, assignments, completed, unit_to_claim,
          claim_to_unit, unit_to_doc_keys, active_dc_keys, units,
          assigned_by, findings, call, ret, threads, now>>

\* ------------------------------------------------------------------------
\* Corpus filter
\* ------------------------------------------------------------------------
HasExcludedSuffix(id) == id.fmt = "media"

RECURSIVE filter_claims(_)
filter_claims(cs) ==
    IF cs = << >> THEN << >>
    ELSE LET claim == Head(cs)
             skip == \/ DS10_DATASET \in Range(claim.primary_datasets)
                     \/ \E e \in Range(claim.cited_eftas) : HasExcludedSuffix(e)
         IN  (IF skip THEN << >> ELSE <<claim>>) \o filter_claims(Tail(cs))

EftaFieldCandidates(rel) == <<rel.efta_number, rel.efta_source>>

\* Variant that looks at the file suffixes only.
RECURSIVE filter_relationships_SuffixOnly(_)
filter_relationships_SuffixOnly(rs) ==
    IF rs = << >> THEN << >>
    ELSE LET rel == Head(rs)
             skip == \E c \in Range(EftaFieldCandidates(rel)) : HasExcludedSuffix(c)
         IN  (IF skip THEN << >> ELSE <<rel>>) \o filter_relationships_SuffixOnly(Tail(rs))

RECURSIVE filter_relationships(_)
filter_relationships(rs) ==
    IF rs = << >> THEN << >>
    ELSE LET rel == Head(rs)
             skip == \/ rel.dataset = DS10_DATASET
                     \/ \E c \in Range(EftaFieldCandidates(rel)) : HasExcludedSuffix(c)
         IN  (IF skip THEN << >> ELSE <<rel>>) \o filter_relationships(Tail(rs))

\* ------------------------------------------------------------------------
\* Unit builder
\* ------------------------------------------------------------------------
build_url(efta_int, dataset) == [ds |-> dataset, num |-> efta_int]

\* _parse_efta_int raises on a string that is not "EFTA" + 8 digits.
ParsesAsEfta(id) == id.fmt = "efta"

\* _build_verify_unit together with WorkUnit.__post_init__: TRUE when the
\* claim yields a valid unit, FALSE when construction raises.
VerifyBuildable(claim) ==
    /\ claim.cited_eftas # << >>
    /\ Len(claim.cited_eftas) = Len(claim.primary_datasets)
    /\ \A e \in Range(claim.cited_eftas) : ParsesAsEfta(e)
    /\ claim.claim # ""

build_verify_unit(claim, uid) ==
    [unit_id |-> uid,
     type |-> "verify_finding",
     claim |-> claim.claim,
     cited_eftas |-> claim.cited_eftas,
     efta_urls |-> [i \in DOMAIN claim.cited_eftas |->
                       build_url(claim.cited_eftas[i].n, claim.primary_datasets[i])],
     time_window_start |-> 0,
     time_window_end |-> 0,
     data |-> << >>,
     deadline |-> now + DEADLINE_HOURS]

build_decision_chain_unit(window_start, doc_refs, uid) ==
    [unit_id |-> uid,
     type |-> "decision_chain",
     claim |-> "",
     cited_eftas |-> << >>,
     efta_urls |-> << >>,
     time_window_start |-> window_start,
     time_window_end |-> window_start + DC_WINDOW_DAYS,
     data |-> doc_refs,
     deadline |-> now + DEADLINE_HOURS]

\* WorkUnit._validate_decision_chain_input
ValidDecisionChainInput(unit) ==
    /\ unit.time_window_end >= unit.time_window_start
    /\ unit.time_window_end - unit.time_window_start <= DC_WINDOW_DAYS
    /\ DC_BATCH_MIN <= Len(unit.data)
    /\ Len(unit.data) <= DC_BATCH_MAX
    /\ \A i \in DOMAIN unit.data : ParsesAsEfta(unit.data[i].efta_number)

\* ------------------------------------------------------------------------
\* Time-window selector
\* ------------------------------------------------------------------------
\* _parse_date_field: a plain date, a datetime, or a datetime with a
\* trailing Z parse to their calendar day; anything else raises ValueError.
DateParses(date) == date.kind \in {"date", "datetime", "datetimeZ"}

parse_date_field(date) == date.day

\* First candidate field holding a well-formed EFTA string, or AbsentId.
RECURSIVE FirstEfta(_)
FirstEfta(cands) ==
    IF cands = << >> THEN AbsentId
    ELSE IF Head(cands).fmt = "efta" THEN Head(cands)
    ELSE FirstEfta(Tail(cands))

HasDocRef(rel) == FirstEfta(EftaFieldCandidates(rel)).fmt = "efta"

relationship_to_doc_ref(rel) ==
    LET efta == FirstEfta(EftaFieldCandidates(rel))
        dataset == IF rel.dataset = 0 THEN DefaultDataset ELSE rel.dataset
    IN  [efta_number |-> efta, url |-> build_url(efta.n, dataset), date |-> rel.date]

\* A record survives when it has a usable EFTA number, a non-empty
\* parseable date, and its document is not consumed by a live unit.
\* Variant that does not look at the locked document ids.
Survives_IgnoringLocks(rel, active) ==
    /\ HasDocRef(rel)
    /\ rel.date.kind # "empty"
    /\ DateParses(rel.date)

Survives(rel, active) ==
    /\ HasDocRef(rel)
    /\ rel.date.kind # "empty"
    /\ DateParses(rel.date)
    /\ relationship_to_doc_ref(rel).efta_number \notin active

\* Variant that anchors every record at the earliest date.
BucketStart_Anchored(d, min_date) == min_date

BucketStart(d, min_date) ==
    min_date + ((d - min_date) \div DC_WINDOW_DAYS) * DC_WINDOW_DAYS

\* buckets[b]: the surviving records of the bucket that starts on day b,
\* in encounter order.
Bucket(rels, active, min_date, b) ==
    LET InBucket(rel) == /\ Survives(rel, active)
                         /\ BucketStart(parse_date_field(rel.date), min_date) = b
    IN  SelectSeq(rels, InBucket)

\* Variant that returns the latest bucket that is large enough.
select_time_window_LatestBucket(rels, active) ==
    LET days == {parse_date_field(rels[i].date) :
                    i \in {j \in DOMAIN rels : Survives(rels[j], active)}}
        NoWindow == [ok |-> FALSE, window_start |-> 0, doc_refs |-> << >>]
    IN  IF rels = << >> \/ days = {} THEN NoWindow
        ELSE LET min_date == SetMin(days)
                 starts == {BucketStart(d, min_date) : d \in days}
                 eligible == {b \in starts :
                                 Len(Bucket(rels, active, min_date, b)) >= DC_BATCH_MIN}
             IN  IF eligible = {} THEN NoWindow
                 ELSE LET b == CHOOSE x \in eligible : \A y \in eligible : y <= x
                          candidates == Bucket(rels, active, min_date, b)
                          n == MinOf(DC_BATCH_MAX, Len(candidates))
                      IN  [ok |-> TRUE,
                           window_start |-> b,
                           doc_refs |-> [k \in 1..n |->
                                            relationship_to_doc_ref(candidates[k])]]

\* _select_time_window: [ok, window_start, doc_refs]; ok = FALSE stands for
\* NoAvailableUnitsError.
select_time_window(rels, active) ==
    LET days == {parse_date_field(rels[i].date) :
                    i \in {j \in DOMAIN rels : Survives(rels[j], active)}}
        NoWindow == [ok |-> FALSE, window_start |-> 0, doc_refs |-> << >>]
    IN  IF rels = << >> \/ days = {} THEN NoWindow
        ELSE LET min_date == SetMin(days)
                 starts == {BucketStart(d, min_date) : d \in days}
                 eligible == {b \in starts :
                                 Len(Bucket(rels, active, min_date, b)) >= DC_BATCH_MIN}
             IN  IF eligible = {} THEN NoWindow
                 ELSE LET b == SetMin(eligible)
                          candidates == Bucket(rels, active, min_date, b)
                          n == MinOf(DC_BATCH_MAX, Len(candidates))
                      IN  [ok |-> TRUE,
                           window_start |-> b,
                           doc_refs |-> [k \in 1..n |->
                                            relationship_to_doc_ref(candidates[k])]]

\* ------------------------------------------------------------------------
\* Assignment ledger.  The operations are functions of the generator's
\* mutable state L and give [L, raised, unit_id]: the state after the call,
\* the exception raised ("" when none), and the unit_id returned.
\* ------------------------------------------------------------------------
Ledger ==
    [assignments |-> assignments, completed |-> completed,
     unit_to_claim |-> unit_to_claim, claim_to_unit |-> claim_to_unit,
     unit_to_doc_keys |-> unit_to_doc_keys, active_dc_keys |-> active_dc_keys,
     units |-> units]

SetLedger(L) ==
    /\ assignments' = L.assignments
    /\ completed' = L.completed
    /\ unit_to_claim' = L.unit_to_claim
    /\ claim_to_unit' = L.claim_to_unit
    /\ unit_to_doc_keys' = L.unit_to_doc_keys
    /\ active_dc_keys' = L.active_dc_keys
    /\ units' = L.units

Raise(L, err) == [L |-> L, raised |-> err, unit_id |-> 0]

Return(L, uid) == [L |-> L, raised |-> "", unit_id |-> uid]

\* Variant that hands the identifier of a completed unit out again.
NewUnitId_Recycled(L) ==
    IF L.completed # {} THEN SetMin(L.completed)
    ELSE Cardinality(DOMAIN L.assignments) + 1

\* uuid4().hex[:12]: an identifier no earlier unit carries.
NewUnitId(L) == Cardinality(DOMAIN L.assignments) + 1

\* A claim is skipped when its claim_id is bound to a unit that is not
\* completed.
ClaimIsLive(L, claim) ==
    /\ claim.claim_id \in DOMAIN L.claim_to_unit
    /\ L.claim_to_unit[claim.claim_id] \notin L.completed

\* Variant that serves the last claim without a live unit.
FirstFreeClaim_LastFree(L) ==
    LET free == {i \in DOMAIN claims : ~ClaimIsLive(L, claims[i])}
    IN  IF free = {} THEN 0 ELSE CHOOSE i \in free : \A j \in free : j <= i

\* Variant that also skips a claim a completed unit was built from.
FirstFreeClaim_SkipsCompleted(L) ==
    LET done(c) == \E u \in L.completed \cap DOMAIN L.unit_to_claim :
                      L.unit_to_claim[u].claim_id = c.claim_id
        free == {i \in DOMAIN claims :
                    ~ClaimIsLive(L, claims[i]) /\ ~done(claims[i])}
    IN  IF free = {} THEN 0 ELSE SetMin(free)

\* Index of the first claim that is not skipped, 0 when there is none.
FirstFreeClaim(L) ==
    LET free == {i \in DOMAIN claims : ~ClaimIsLive(L, claims[i])}
    IN  IF free = {} THEN 0 ELSE SetMin(free)

\* Variant that registers the unit id before the unit is built.
RegisterVerifyFinding_RegistersFirst(L, claim) ==
    LET uid == NewUnitId(L)
        registered == [L EXCEPT
                          !.assignments = Put(@, uid, None),
                          !.unit_to_claim = Put(@, uid, claim),
                          !.claim_to_unit = Put(@, claim.claim_id, uid)]
    IN  IF ~VerifyBuildable(claim) THEN Raise(registered, "ValueError")
        ELSE Return([registered EXCEPT
                        !.units = Put(@, uid, build_verify_unit(claim, uid))],
                    uid)

\* Build and registration of the verify_finding unit of a claim.
RegisterVerifyFinding(L, claim) ==
    LET uid == NewUnitId(L)
    IN  IF ~VerifyBuildable(claim) THEN Raise(L, "ValueError")
        ELSE Return([L EXCEPT
                        !.assignments = Put(@, uid, None),
                        !.unit_to_claim = Put(@, uid, claim),
                        !.claim_to_unit = Put(@, claim.claim_id, uid),
                        !.units = Put(@, uid, build_verify_unit(claim, uid))],
                    uid)

\* _generate_verify_finding
generate_verify_finding(L) ==
    LET i == FirstFreeClaim(L)
    IN  IF i = 0 THEN Raise(L, "NoAvailableUnitsError")
        ELSE RegisterVerifyFinding(L, claims[i])

\* Variant that does not lock the documents of the new unit.
RegisterDecisionChain_NoLock(L, sel) ==
    LET uid == NewUnitId(L)
        unit == build_decision_chain_unit(sel.window_start, sel.doc_refs, uid)
        consumed_keys == {sel.doc_refs[i].efta_number : i \in DOMAIN sel.doc_refs}
    IN  IF ~sel.ok THEN Raise(L, "NoAvailableUnitsError")
        ELSE IF ~ValidDecisionChainInput(unit) THEN Raise(L, "ValueError")
        ELSE Return([L EXCEPT
                        !.assignments = Put(@, uid, None),
                        !.unit_to_doc_keys = Put(@, uid, consumed_keys),
                        !.units = Put(@, uid, unit)],
                    uid)

\* Registration of the decision_chain unit built from the selection sel.
RegisterDecisionChain(L, sel) ==
    LET uid == NewUnitId(L)
        unit == build_decision_chain_unit(sel.window_start, sel.doc_refs, uid)
        consumed_keys == {sel.doc_refs[i].efta_number : i \in DOMAIN sel.doc_refs}
    IN  IF ~sel.ok THEN Raise(L, "NoAvailableUnitsError")
        ELSE IF ~ValidDecisionChainInput(unit) THEN Raise(L, "ValueError")
        ELSE Return([L EXCEPT
                        !.assignments = Put(@, uid, None),
                        !.unit_to_doc_keys = Put(@, uid, consumed_keys),
                        !.active_dc_keys = @ \cup consumed_keys,
                        !.units = Put(@, uid, unit)],
                    uid)

\* _generate_decision_chain
generate_decision_chain(L) ==
    CHOOSE out \in {RegisterDecisionChain(L, sel) :
                       sel \in {select_time_window(relationships, L.active_dc_keys)}} : TRUE

\* generate_unit(unit_type)
generate_unit(L, unit_type) ==
    IF unit_type = "verify_finding" THEN generate_verify_finding(L)
    ELSE IF unit_type = "decision_chain" THEN generate_decision_chain(L)
    ELSE Raise(L, "ValueError")

\* Variant that binds a unit it does not know in place of raising.
mark_unit_assigned_UnknownAccepted(L, unit_id, worker_id) ==
    IF unit_id \notin DOMAIN L.assignments
    THEN Return([L EXCEPT !.assignments = Put(@, unit_id, worker_id)], unit_id)
    ELSE IF unit_id \in L.completed THEN Raise(L, "ValueError: already completed")
    ELSE IF L.assignments[unit_id] # None THEN Raise(L, "ValueError: already assigned")
    ELSE Return([L EXCEPT !.assignments[unit_id] = worker_id], unit_id)

\* mark_unit_assigned(unit_id, worker_id)
\* Variant that rebinds a unit that already has a worker.
mark_unit_assigned_Rebinding(L, unit_id, worker_id) ==
    IF unit_id \notin DOMAIN L.assignments THEN Raise(L, "KeyError")
    ELSE IF unit_id \in L.completed THEN Raise(L, "ValueError: already completed")
    ELSE Return([L EXCEPT !.assignments[unit_id] = worker_id], unit_id)

mark_unit_assigned(L, unit_id, worker_id) ==
    IF unit_id \notin DOMAIN L.assignments THEN Raise(L, "KeyError")
    ELSE IF unit_id \in L.completed THEN Raise(L, "ValueError: already completed")
    ELSE IF L.assignments[unit_id] # None THEN Raise(L, "ValueError: already assigned")
    ELSE Return([L EXCEPT !.assignments[unit_id] = worker_id], unit_id)

\* mark_unit_complete(unit_id)
\* Variant that keeps the unit's documents locked.
mark_unit_complete_KeepsLocks(L, unit_id) ==
    IF unit_id \notin DOMAIN L.assignments THEN Raise(L, "KeyError")
    ELSE LET claim_bound ==
                 /\ unit_id \in DOMAIN L.unit_to_claim
                 /\ L.unit_to_claim[unit_id].claim_id \in DOMAIN L.claim_to_unit
                 /\ L.claim_to_unit[L.unit_to_claim[unit_id].claim_id] = unit_id
         IN  Return([L EXCEPT
                        !.completed = @ \cup {unit_id},
                        !.assignments[unit_id] = None,
                        !.claim_to_unit =
                            IF claim_bound
                            THEN Del(@, L.unit_to_claim[unit_id].claim_id) ELSE @,
                        !.unit_to_doc_keys = Del(@, unit_id)],
                    unit_id)

\* Variant that frees the claim's slot whichever unit holds it.
mark_unit_complete_FreesAnySlot(L, unit_id) ==
    IF unit_id \notin DOMAIN L.assignments THEN Raise(L, "KeyError")
    ELSE LET doc_keys == IF unit_id \in DOMAIN L.unit_to_doc_keys
                         THEN L.unit_to_doc_keys[unit_id] ELSE {}
         IN  Return([L EXCEPT
                        !.completed = @ \cup {unit_id},
                        !.assignments[unit_id] = None,
                        !.claim_to_unit =
                            IF unit_id \in DOMAIN L.unit_to_claim
                            THEN Del(@, L.unit_to_claim[unit_id].claim_id) ELSE @,
                        !.unit_to_doc_keys = Del(@, unit_id),
                        !.active_dc_keys = @ \ doc_keys],
                    unit_id)

\* Variant that releases every lock, whichever unit holds it.
mark_unit_complete_ReleasesAll(L, unit_id) ==
    IF unit_id \notin DOMAIN L.assignments THEN Raise(L, "KeyError")
    ELSE LET claim_bound ==
                 /\ unit_id \in DOMAIN L.unit_to_claim
                 /\ L.unit_to_claim[unit_id].claim_id \in DOMAIN L.claim_to_unit
                 /\ L.claim_to_unit[L.unit_to_claim[unit_id].claim_id] = unit_id
         IN  Return([L EXCEPT
                        !.completed = @ \cup {unit_id},
                        !.assignments[unit_id] = None,
                        !.claim_to_unit =
                            IF claim_bound
                            THEN Del(@, L.unit_to_claim[unit_id].claim_id) ELSE @,
                        !.unit_to_doc_keys = Del(@, unit_id),
                        !.active_dc_keys = {}],
                    unit_id)

\* Variant that leaves the worker binding of the completed unit in place.
mark_unit_complete_KeepsWorker(L, unit_id) ==
    IF unit_id \notin DOMAIN L.assignments THEN Raise(L, "KeyError")
    ELSE LET claim_bound ==
                 /\ unit_id \in DOMAIN L.unit_to_claim
                 /\ L.unit_to_claim[unit_id].claim_id \in DOMAIN L.claim_to_unit
                 /\ L.claim_to_unit[L.unit_to_claim[unit_id].claim_id] = unit_id
             doc_keys == IF unit_id \in DOMAIN L.unit_to_doc_keys
                         THEN L.unit_to_doc_keys[unit_id] ELSE {}
         IN  Return([L EXCEPT
                        !.completed = @ \cup {unit_id},
                        !.claim_to_unit =
                            IF claim_bound
                            THEN Del(@, L.unit_to_claim[unit_id].claim_id) ELSE @,
                        !.unit_to_doc_keys = Del(@, unit_id),
                        !.active_dc_keys = @ \ doc_keys],
                    unit_id)

\* Variant that leaves the claim slot of the completed unit in place.
mark_unit_complete_KeepsSlot(L, unit_id) ==
    IF unit_id \notin DOMAIN L.assignments THEN Raise(L, "KeyError")
    ELSE LET doc_keys == IF unit_id \in DOMAIN L.unit_to_doc_keys
                         THEN L.unit_to_doc_keys[unit_id] ELSE {}
         IN  Return([L EXCEPT
                        !.completed = @ \cup {unit_id},
                        !.assignments[unit_id] = None,
                        !.unit_to_doc_keys = Del(@, unit_id),
                        !.active_dc_keys = @ \ doc_keys],
                    unit_id)

\* Variant that releases the unit's slot and locks without recording the
\* completion.
mark_unit_complete_NotRecorded(L, unit_id) ==
    IF unit_id \notin DOMAIN L.assignments THEN Raise(L, "KeyError")
    ELSE LET claim_bound ==
                 /\ unit_id \in DOMAIN L.unit_to_claim
                 /\ L.unit_to_claim[unit_id].claim_id \in DOMAIN L.claim_to_unit
                 /\ L.claim_to_unit[L.unit_to_claim[unit_id].claim_id] = unit_id
             doc_keys == IF unit_id \in DOMAIN L.unit_to_doc_keys
                         THEN L.unit_to_doc_keys[unit_id] ELSE {}
         IN  Return([L EXCEPT
                        !.assignments[unit_id] = None,
                        !.claim_to_unit =
                            IF claim_bound
                            THEN Del(@, L.unit_to_claim[unit_id].claim_id) ELSE @,
                        !.unit_to_doc_keys = Del(@, unit_id),
                        !.active_dc_keys = @ \ doc_keys],
                    unit_id)

mark_unit_complete(L, unit_id) ==
    IF unit_id \notin DOMAIN L.assignments THEN Raise(L, "KeyError")
    ELSE LET claim_bound ==
                 /\ unit_id \in DOMAIN L.unit_to_claim
                 /\ L.unit_to_claim[unit_id].claim_id \in DOMAIN L.claim_to_unit
                 /\ L.claim_to_unit[L.unit_to_claim[unit_id].claim_id] = unit_id
             doc_keys == IF unit_id \in DOMAIN L.unit_to_doc_keys
                         THEN L.unit_to_doc_keys[unit_id] ELSE {}
         IN  Return([L EXCEPT
                        !.completed = @ \cup {unit_id},
                        !.assignments[unit_id] = None,
                        !.claim_to_unit =
                            IF claim_bound
                            THEN Del(@, L.unit_to_claim[unit_id].claim_id) ELSE @,
                        !.unit_to_doc_keys = Del(@, unit_id),
                        !.active_dc_keys = @ \ doc_keys],
                    unit_id)

\* Variant that counts every unit that is not completed as assigned.
get_status_LiveAsAssigned(L) ==
    [total_claims |-> Len(claims),
     total_relationships |-> Len(relationships),
     total_generated |-> Cardinality(DOMAIN L.assignments),
     total_assigned |-> Cardinality({u \in DOMAIN L.assignments : u \notin L.completed}),
     total_completed |-> Cardinality(L.completed)]

\* Variant that counts the verify_finding units only as generated.
get_status_VerifyOnly(L) ==
    [total_claims |-> Len(claims),
     total_relationships |-> Len(relationships),
     total_generated |-> Cardinality(DOMAIN L.unit_to_claim),
     total_assigned |-> Cardinality({u \in DOMAIN L.assignments :
                           L.assignments[u] # None /\ u \notin L.completed}),
     total_completed |-> Cardinality(L.completed)]

\* get_status()
get_status(L) ==
    [total_claims |-> Len(claims),
     total_relationships |-> Len(relationships),
     total_generated |-> Cardinality(DOMAIN L.assignments),
     total_assigned |-> Cardinality({u \in DOMAIN L.assignments :
                           L.assignments[u] # None /\ u \notin L.completed}),
     total_completed |-> Cardinality(L.completed)]

\* ------------------------------------------------------------------------
\* Calls on the generator
\* ------------------------------------------------------------------------
UnitIds == 1..MaxUnits

UnitTypes == {"verify_finding", "decision_chain"}

Outcome(out) == [raised |-> out.raised, unit_id |-> out.unit_id]

GenerateUnit(unit_type) ==
    /\ Cardinality(DOMAIN assignments) < MaxUnits
    /\ call' = [op |-> "generate_unit", unit_type |-> unit_type]
    /\ \E out \in {generate_unit(Ledger, unit_type)} :
          /\ SetLedger(out.L)
          /\ ret' = Outcome(out)
    /\ UNCHANGED <<inputs, now, threads, assigned_by, findings>>

MarkUnitAssigned(unit_id, worker_id) ==
    /\ call' = [op |-> "mark_unit_assigned", unit_id |-> unit_id, worker_id |-> worker_id]
    /\ \E out \in {mark_unit_assigned(Ledger, unit_id, worker_id)} :
          /\ SetLedger(out.L)
          /\ ret' = Outcome(out)
          /\ assigned_by' = IF out.raised = "" /\ unit_id \notin DOMAIN assigned_by
                            THEN Put(assigned_by, unit_id, worker_id)
                            ELSE assigned_by
    /\ UNCHANGED <<inputs, now, threads, findings>>

MarkUnitComplete(unit_id) ==
    /\ call' = [op |-> "mark_unit_complete", unit_id |-> unit_id]
    /\ \E out \in {mark_unit_complete(Ledger, unit_id)} :
          /\ SetLedger(out.L)
          /\ ret' = Outcome(out)
    /\ UNCHANGED <<inputs, now, threads, assigned_by, findings>>

\* ------------------------------------------------------------------------
\* The generator on its own
\* ------------------------------------------------------------------------
\* WorkUnitGenerator.__init__ on one of the input datasets.
InitGenerator ==
    /\ \E raw \in ClaimDatasets : claims = filter_claims(raw)
    /\ \E raw \in RelDatasets : relationships = filter_relationships(raw)
    /\ assignments = EmptyMap
    /\ completed = {}
    /\ unit_to_claim = EmptyMap
    /\ claim_to_unit = EmptyMap
    /\ unit_to_doc_keys = EmptyMap
    /\ active_dc_keys = {}
    /\ units = EmptyMap
    /\ assigned_by = EmptyMap
    /\ call = [op |-> "init"]
    /\ ret = [raised |-> "", unit_id |-> 0]
    /\ threads = AllIdle
    /\ now = 0

Init ==
    /\ InitGenerator
    /\ findings = << >>

Next ==
    \/ \E t \in UnitTypes : GenerateUnit(t)
    \/ \E u \in UnitIds, w \in Workers : MarkUnitAssigned(u, w)
    \/ \E u \in UnitIds : MarkUnitComplete(u)

Spec == Init /\ [][Next]_vars

\* The generator while time passes: the clock moves between the calls.
Tick ==
    /\ now < MaxTicks * TickHours
    /\ now' = now + TickHours
    /\ UNCHANGED <<inputs, threads, ledger, assigned_by, findings, call, ret>>

NextDeadline ==
    \/ Next
    \/ Tick

SpecDeadline == Init /\ [][NextDeadline]_vars

\* ------------------------------------------------------------------------
\* Validation layer: submissions and reference data
\* ------------------------------------------------------------------------
\* worker_id values of a submission (non-blank identifiers): an ordinary id
\* and an id that is itself a social security number.
SubmissionWorkers == {"worker-A", "123-45-6789"}

CleanText == "Document supports the claim."

PiiText == "call 555-123-4567 about 123-45-6789"

Result(text, citations) == [reasoning |-> text, citations |-> citations]

\* efta_mapping rows (range_start, range_end) and entities.entity_id values
\* of the ingested reference data.
EftaMapping == {[range_start |-> 1, range_end |-> 70]}

EntityIds == {Efta(90)}

CitedLists == {<< >>, <<Efta(1)>>, <<Efta(91), Efta(1), Efta(92)>>, <<Efta(91), Efta(91)>>}

Submission(unit_id, worker_id, result, cited_eftas, unit_type) ==
    [unit_id |-> unit_id, worker_id |-> worker_id, result |-> result,
     cited_eftas |-> cited_eftas, unit_type |-> unit_type]

\* ------------------------------------------------------------------------
\* Validation layer: PII scan
\* ------------------------------------------------------------------------
PII_PATTERNS == <<"ssn", "phone", "postal_address">>

\* pattern.finditer on one string of the submission: the matched
\* substrings, in text order.
FindIter(pattern, text) ==
    IF pattern = "ssn" /\ text \in {"123-45-6789", PiiText} THEN <<"123-45-6789">>
    ELSE IF pattern = "phone" /\ text = PiiText THEN <<"555-123-4567">>
    ELSE << >>

EftaStr(efta) == IF efta.fmt = "efta" THEN "EFTA" \o ToString(efta.n) ELSE "not-an-efta"

UnitIdStr(unit_id) == "unit-" \o ToString(unit_id)

\* _serialise_result: the JSON text of the whole submission, as the list of
\* its string values in dump order.
\* Variant that serialises the result payload only.
serialise_result_PayloadOnly(sub) ==
    <<sub.result.reasoning>>
    \o [i \in DOMAIN sub.result.citations |-> EftaStr(sub.result.citations[i])]

serialise_result(sub) ==
    <<UnitIdStr(sub.unit_id), sub.worker_id, sub.result.reasoning>>
    \o [i \in DOMAIN sub.result.citations |-> EftaStr(sub.result.citations[i])]
    \o [i \in DOMAIN sub.cited_eftas |-> EftaStr(sub.cited_eftas[i])]
    \o <<sub.unit_type>>

RECURSIVE Flatten(_)
Flatten(ss) == IF ss = << >> THEN << >> ELSE Head(ss) \o Flatten(Tail(ss))

\* scan_for_pii: every match of every pattern, pattern by pattern.
scan_for_pii(text) ==
    Flatten([p \in DOMAIN PII_PATTERNS |->
        Flatten([f \in DOMAIN text |->
            LET hits == FindIter(PII_PATTERNS[p], text[f])
            IN  [k \in DOMAIN hits |->
                    [pattern_name |-> PII_PATTERNS[p], matched_text |-> hits[k]]]])])

PiiError(m) == [kind |-> "pii", pattern_name |-> m.pattern_name, matched_text |-> m.matched_text]

\* ------------------------------------------------------------------------
\* Validation layer: provenance
\* ------------------------------------------------------------------------
\* _efta_to_int: the numeric suffix, or -1 for None.
efta_to_int(efta) == IF efta.fmt = "efta" THEN efta.n ELSE -1

efta_is_known(efta) ==
    \/ /\ efta_to_int(efta) # -1
       /\ \E r \in EftaMapping :
             r.range_start <= efta_to_int(efta) /\ efta_to_int(efta) <= r.range_end
    \/ efta \in EntityIds

ProvenanceError(efta) == [kind |-> "provenance", efta |-> efta]

\* Variant that stops at the first unknown citation.
RECURSIVE verify_provenance_FirstOnly(_)
verify_provenance_FirstOnly(cited_eftas) ==
    IF cited_eftas = << >> THEN << >>
    ELSE IF ~efta_is_known(Head(cited_eftas)) THEN <<ProvenanceError(Head(cited_eftas))>>
    ELSE verify_provenance_FirstOnly(Tail(cited_eftas))

RECURSIVE verify_provenance(_)
verify_provenance(cited_eftas) ==
    IF cited_eftas = << >> THEN << >>
    ELSE (IF efta_is_known(Head(cited_eftas)) THEN << >>
          ELSE <<ProvenanceError(Head(cited_eftas))>>)
         \o verify_provenance(Tail(cited_eftas))

\* ------------------------------------------------------------------------
\* Findings store and deduplication
\* ------------------------------------------------------------------------
\* Variant of the query without the status condition.
get_accepted_finding_id_AnyStatus(unit_id) ==
    LET hits == {i \in DOMAIN findings : findings[i].unit_id = unit_id}
    IN  IF hits = {} THEN 0 ELSE findings[SetMin(hits)].finding_id

\* SELECT finding_id FROM findings WHERE unit_id = ? AND status = 'accepted'
\* LIMIT 1; 0 stands for None.
\* Variant whose query always fails, so that the exception handler answers
\* None.
get_accepted_finding_id_QueryFails(unit_id) == 0

get_accepted_finding_id(unit_id) ==
    LET hits == {i \in DOMAIN findings :
                    findings[i].unit_id = unit_id /\ findings[i].status = "accepted"}
    IN  IF hits = {} THEN 0 ELSE findings[SetMin(hits)].finding_id

\* Variant whose message names the unit in place of the finding.
DuplicateError_NamingUnit(unit_id, existing_id) ==
    [kind |-> "duplicate", unit_id |-> unit_id, finding_id |-> unit_id]

DuplicateError(unit_id, existing_id) ==
    [kind |-> "duplicate", unit_id |-> unit_id, finding_id |-> existing_id]

\* check_deduplication: (error message or None, existing finding_id or None)
check_deduplication(unit_id) ==
    LET existing_id == get_accepted_finding_id(unit_id)
    IN  IF existing_id # 0
        THEN [error |-> <<DuplicateError(unit_id, existing_id)>>, existing_id |-> existing_id]
        ELSE [error |-> << >>, existing_id |-> 0]

\* Variant that overwrites the row of an existing finding_id.
store_finding_Replacing(rows, finding) ==
    IF \E i \in DOMAIN rows : rows[i].finding_id = finding.finding_id
    THEN [i \in DOMAIN rows |->
             IF rows[i].finding_id = finding.finding_id THEN finding ELSE rows[i]]
    ELSE Append(rows, finding)

\* FindingsStore.store_finding: a row whose finding_id exists is left alone.
store_finding(rows, finding) ==
    IF \E i \in DOMAIN rows : rows[i].finding_id = finding.finding_id
    THEN rows
    ELSE Append(rows, finding)

\* uuid4().hex[:12]: an identifier no stored finding carries.
NewFindingId ==
    IF findings = << >> THEN 1
    ELSE 1 + CHOOSE m \in {findings[i].finding_id : i \in DOMAIN findings} :
                 \A i \in DOMAIN findings : findings[i].finding_id <= m

\* Finding._non_empty_string: empty and whitespace-only strings are rejected.
IsBlank(str) == str \in {"", " "}

\* The Finding model built by _store_finding validates; otherwise
\* constructing it raises (pydantic ValidationError).
FindingIsValid(sub) == ~IsBlank(sub.worker_id) /\ ~IsBlank(sub.unit_type)

Finding(finding_id, sub, status) ==
    [finding_id |-> finding_id, unit_id |-> sub.unit_id, unit_type |-> sub.unit_type,
     worker_id |-> sub.worker_id, status |-> status, result_json |-> sub.result]

\* ------------------------------------------------------------------------
\* Validation layer: validate_result
\* ------------------------------------------------------------------------
ValidationResult(accepted, pii_detected, errors, finding_id) ==
    [accepted |-> accepted, quorum_status |-> "achieved",
     pii_detected |-> pii_detected, errors |-> errors, finding_id |-> finding_id]

Raised(err) == [raised |-> err]

Result_(res) == [raised |-> "", result |-> res]

\* _store_finding(result, status): [ok, finding_id, rows]; ok = FALSE when
\* building the Finding raises.
StoreFindingRow(sub, status) ==
    IF ~FindingIsValid(sub)
    THEN [ok |-> FALSE, finding_id |-> 0, rows |-> findings]
    ELSE [ok |-> TRUE, finding_id |-> NewFindingId,
          rows |-> store_finding(findings, Finding(NewFindingId, sub, status))]

\* The four exits of validate_result.  Each gives [raised, result, rows]:
\* what the call raises or returns, and the findings table after it.
Outcome_(st, res) ==
    IF st.ok THEN [raised |-> "", rows |-> st.rows, result |-> res]
    ELSE [raised |-> "ValidationError", rows |-> findings, result |-> res]

Quarantine(sub, pii_matches) ==
    LET st == StoreFindingRow(sub, "quarantined")
    IN  Outcome_(st, ValidationResult(FALSE, TRUE,
                         [k \in DOMAIN pii_matches |-> PiiError(pii_matches[k])],
                         st.finding_id))

RejectProvenance(provenance_errors) ==
    [raised |-> "", rows |-> findings,
     result |-> ValidationResult(FALSE, FALSE, provenance_errors, 0)]

\* Variant that reports a duplicate as accepted.
RejectDuplicate_AsAccepted(dedup) ==
    [raised |-> "", rows |-> findings,
     result |-> ValidationResult(TRUE, FALSE, << >>, dedup.existing_id)]

RejectDuplicate(dedup) ==
    [raised |-> "", rows |-> findings,
     result |-> ValidationResult(FALSE, FALSE, dedup.error, dedup.existing_id)]

Accept(sub) ==
    LET st == StoreFindingRow(sub, "accepted")
    IN  Outcome_(st, ValidationResult(TRUE, FALSE, << >>, st.finding_id))

\* validate_result(sub)
\* Variant that checks provenance before it scans for PII.
validate_result_ProvenanceFirst(sub) ==
    LET pii_matches == scan_for_pii(serialise_result(sub))
        provenance_errors == verify_provenance(sub.cited_eftas)
        dedup == check_deduplication(sub.unit_id)
    IN  IF provenance_errors # << >> THEN RejectProvenance(provenance_errors)
        ELSE IF pii_matches # << >> THEN Quarantine(sub, pii_matches)
        ELSE IF dedup.error # << >> THEN RejectDuplicate(dedup)
        ELSE Accept(sub)

validate_result(sub) ==
    LET pii_matches == scan_for_pii(serialise_result(sub))
        provenance_errors == verify_provenance(sub.cited_eftas)
        dedup == check_deduplication(sub.unit_id)
    IN  IF pii_matches # << >> THEN Quarantine(sub, pii_matches)
        ELSE IF provenance_errors # << >> THEN RejectProvenance(provenance_errors)
        ELSE IF dedup.error # << >> THEN RejectDuplicate(dedup)
        ELSE Accept(sub)

\* A direct call of ValidationLayer.validate_result
ValidateResult(sub) ==
    /\ call' = [op |-> "validate_result", sub |-> sub]
    /\ \E out \in {validate_result(sub)} :
          /\ Len(out.rows) <= MaxFindings
          /\ findings' = out.rows
          /\ ret' = IF out.raised # "" THEN Raised(out.raised) ELSE Result_(out.result)
    /\ UNCHANGED <<inputs, now, threads, ledger, assigned_by>>

\* ------------------------------------------------------------------------
\* The validation layer on its own
\* ------------------------------------------------------------------------
StoredRow(finding_id, unit_id, status) ==
    [finding_id |-> finding_id, unit_id |-> unit_id, unit_type |-> "verify_finding",
     worker_id |-> "worker-B", status |-> status, result_json |-> Result(CleanText, << >>)]

\* Findings tables the layer may start from: empty, or one row written
\* earlier for unit 1 (at most one accepted row per unit_id).
InitialStores ==
    {<< >>} \cup {<<StoredRow(1, 1, st)>> : st \in {"accepted", "pending", "quarantined"}}

InitValidation ==
    /\ claims = << >>
    /\ relationships = << >>
    /\ assignments = EmptyMap
    /\ completed = {}
    /\ unit_to_claim = EmptyMap
    /\ claim_to_unit = EmptyMap
    /\ unit_to_doc_keys = EmptyMap
    /\ active_dc_keys = {}
    /\ units = EmptyMap
    /\ assigned_by = EmptyMap
    /\ call = [op |-> "init"]
    /\ ret = [raised |-> "", unit_id |-> 0]
    /\ threads = AllIdle
    /\ now = 0
    /\ findings \in InitialStores

Submissions ==
    {Submission(u, w, Result(t, << >>), c, "verify_finding") :
        u \in UnitIds, w \in SubmissionWorkers, t \in {CleanText, PiiText}, c \in CitedLists}

NextValidation == \E sub \in Submissions : ValidateResult(sub)

SpecValidation == InitValidation /\ [][NextValidation]_vars

\* A direct call of FindingsStore.store_finding, which returns the
\* finding_id of the finding it was given.
StoreFinding(finding) ==
    /\ call' = [op |-> "store_finding", finding |-> finding]
    /\ \E rows \in {store_finding(findings, finding)} :
          /\ Len(rows) <= MaxFindings
          /\ findings' = rows
    /\ ret' = [raised |-> "", finding_id |-> finding.finding_id]
    /\ UNCHANGED <<inputs, now, threads, ledger, assigned_by>>

\* The store on its own: findings of any status and payload, under ids
\* that may or may not be stored already.
NextStore ==
    \E id \in 1..(MaxFindings + 1), u \in UnitIds,
       st \in {"accepted", "pending", "quarantined"}, t \in {CleanText, PiiText} :
        StoreFinding([StoredRow(id, u, st) EXCEPT !.result_json = Result(t, << >>)])

SpecStore == InitValidation /\ [][NextStore]_vars

\* ------------------------------------------------------------------------
\* Distribution API
\* ------------------------------------------------------------------------
\* _check_next_unit_available: generate_unit() of the default type; any
\* exception means no unit.  [L, available].
check_next_unit_available(L) ==
    LET out == generate_unit(L, "verify_finding")
    IN  [L |-> out.L, available |-> out.raised = ""]

\* _extract_cited_eftas: the citations whose efta_number starts with "EFTA".
RECURSIVE extract_cited_eftas(_)
extract_cited_eftas(citations) ==
    IF citations = << >> THEN << >>
    ELSE (IF Head(citations).fmt \in {"efta", "media"} THEN <<Head(citations)>> ELSE << >>)
         \o extract_cited_eftas(Tail(citations))

infer_unit_type(L, unit_id) ==
    IF unit_id \in DOMAIN L.unit_to_claim THEN "verify_finding"
    ELSE IF unit_id \in DOMAIN L.unit_to_doc_keys THEN "decision_chain"
    ELSE "unknown"

AcceptanceResponse(accepted, finding_id, pii_detected, next_unit_available, errors) ==
    [status |-> 200, accepted |-> accepted, finding_id |-> finding_id,
     quorum_status |-> "achieved", pii_detected |-> pii_detected,
     next_unit_available |-> next_unit_available, errors |-> errors]

HttpError(code) == [status |-> code]

\* Variant that leaves the ledger alone after an accepted result.
FinishPostResult_NeverCompletes(L, body, val) ==
    LET probe == check_next_unit_available(L)
    IN  [L |-> probe.L, rows |-> val.rows,
         response |-> AcceptanceResponse(val.result.accepted, val.result.finding_id,
                                         val.result.pii_detected, probe.available,
                                         val.result.errors)]

\* Variant that completes the unit whatever validate_result answered.
FinishPostResult_AlwaysCompletes(L, body, val) ==
    LET L1 == mark_unit_complete(L, body.unit_id).L
        probe == check_next_unit_available(L1)
    IN  [L |-> probe.L, rows |-> val.rows,
         response |-> AcceptanceResponse(val.result.accepted, val.result.finding_id,
                                         val.result.pii_detected, probe.available,
                                         val.result.errors)]

\* The tail of post_result once validate_result has returned val: complete
\* the unit on acceptance, probe for the next unit, answer.
FinishPostResult(L, body, val) ==
    LET L1 == IF val.result.accepted THEN mark_unit_complete(L, body.unit_id).L ELSE L
        probe == check_next_unit_available(L1)
    IN  [L |-> probe.L, rows |-> val.rows,
         response |-> AcceptanceResponse(val.result.accepted, val.result.finding_id,
                                         val.result.pii_detected, probe.available,
                                         val.result.errors)]

\* Variant without the idempotency shortcut: every submission goes through
\* validate_result.
post_result_NoShortcut(L, body) ==
    LET val_submission == Submission(body.unit_id, body.worker_id, body.result,
                                     extract_cited_eftas(body.result.citations),
                                     infer_unit_type(L, body.unit_id))
    IN  IF body.unit_id \notin DOMAIN L.assignments
        THEN [L |-> L, rows |-> findings, response |-> HttpError(404)]
        ELSE CHOOSE out \in
                 {IF val.raised # ""
                  THEN [L |-> L, rows |-> val.rows, response |-> HttpError(500)]
                  ELSE FinishPostResult(L, body, val) :
                      val \in {validate_result(val_submission)}} : TRUE

\* post_result(body): [L, rows, response]
post_result(L, body) ==
    LET existing_id == check_deduplication(body.unit_id).existing_id
        val_submission == Submission(body.unit_id, body.worker_id, body.result,
                                     extract_cited_eftas(body.result.citations),
                                     infer_unit_type(L, body.unit_id))
    IN  IF body.unit_id \notin DOMAIN L.assignments
        THEN [L |-> L, rows |-> findings, response |-> HttpError(404)]
        ELSE IF existing_id # 0
        THEN LET probe == check_next_unit_available(L)
             IN  [L |-> probe.L, rows |-> findings,
                  response |-> AcceptanceResponse(TRUE, existing_id, FALSE,
                                                  probe.available, << >>)]
        ELSE CHOOSE out \in
                 {IF val.raised # ""
                  THEN [L |-> L, rows |-> val.rows, response |-> HttpError(500)]
                  ELSE FinishPostResult(L, body, val) :
                      val \in {validate_result(val_submission)}} : TRUE

\* get_work(): [L, response]
get_work(L) ==
    LET out == generate_unit(L, "verify_finding")
    IN  IF out.raised = "NoAvailableUnitsError"
        THEN [L |-> L, response |-> [status |-> 200, available |-> FALSE, unit_id |-> 0]]
        ELSE IF out.raised # ""
        THEN [L |-> L, response |-> HttpError(500)]
        ELSE [L |-> out.L,
              response |-> [status |-> 200, available |-> TRUE, unit_id |-> out.unit_id]]

\* Request bodies of POST /result.
ApiWorkers == {"worker-A", "worker-B"}

ApiResults ==
    {Result(CleanText, << >>), Result(CleanText, <<Efta(1)>>),
     Result(CleanText, <<Efta(91)>>), Result(PiiText, << >>)}

Bodies == [unit_id : UnitIds, worker_id : ApiWorkers, result : ApiResults]

GetWork ==
    /\ call' = [op |-> "get_work"]
    /\ \E out \in {get_work(Ledger)} :
          /\ Cardinality(DOMAIN out.L.assignments) <= MaxUnits
          /\ SetLedger(out.L)
          /\ ret' = out.response
    /\ UNCHANGED <<inputs, now, threads, assigned_by, findings>>

PostResult(body) ==
    /\ call' = [op |-> "post_result", body |-> body]
    /\ \E out \in {post_result(Ledger, body)} :
          /\ Cardinality(DOMAIN out.L.assignments) <= MaxUnits
          /\ Len(out.rows) <= MaxFindings
          /\ SetLedger(out.L)
          /\ findings' = out.rows
          /\ ret' = out.response
    /\ UNCHANGED <<inputs, now, threads, assigned_by>>

NextApi ==
    \/ GetWork
    \/ \E body \in Bodies : PostResult(body)

SpecApi == Init /\ [][NextApi]_vars

\* The generator on the datasets around the batch limits.
InitBoundary ==
    /\ claims = filter_claims(ClaimsPlain)
    /\ \E raw \in BoundaryDatasets : relationships = filter_relationships(raw)
    /\ assignments = EmptyMap
    /\ completed = {}
    /\ unit_to_claim = EmptyMap
    /\ claim_to_unit = EmptyMap
    /\ unit_to_doc_keys = EmptyMap
    /\ active_dc_keys = {}
    /\ units = EmptyMap
    /\ assigned_by = EmptyMap
    /\ findings = << >>
    /\ call = [op |-> "init"]
    /\ ret = [raised |-> "", unit_id |-> 0]
    /\ threads = AllIdle
    /\ now = 0

SpecBoundary == InitBoundary /\ [][Next]_vars

\* The generator on claim lists that hold a claim no unit can be built
\* from.
InitConstruction ==
    /\ \E raw \in UnbuildableClaimDatasets : claims = filter_claims(raw)
    /\ relationships = filter_relationships(SameDayRecords(DC_BATCH_MIN))
    /\ assignments = EmptyMap
    /\ completed = {}
    /\ unit_to_claim = EmptyMap
    /\ claim_to_unit = EmptyMap
    /\ unit_to_doc_keys = EmptyMap
    /\ active_dc_keys = {}
    /\ units = EmptyMap
    /\ assigned_by = EmptyMap
    /\ findings = << >>
    /\ call = [op |-> "init"]
    /\ ret = [raised |-> "", unit_id |-> 0]
    /\ threads = AllIdle
    /\ now = 0

SpecConstruction == InitConstruction /\ [][Next]_vars

\* The generator on a corpus that holds media records.
InitCorpus ==
    /\ claims = filter_claims(ClaimsMedia)
    /\ relationships = filter_relationships(RelsMedia)
    /\ assignments = EmptyMap
    /\ completed = {}
    /\ unit_to_claim = EmptyMap
    /\ claim_to_unit = EmptyMap
    /\ unit_to_doc_keys = EmptyMap
    /\ active_dc_keys = {}
    /\ units = EmptyMap
    /\ assigned_by = EmptyMap
    /\ findings = << >>
    /\ call = [op |-> "init"]
    /\ ret = [raised |-> "", unit_id |-> 0]
    /\ threads = AllIdle
    /\ now = 0

SpecCorpus == InitCorpus /\ [][Next]_vars

\* The generator on records that are out of date order and fill three
\* 30-day buckets unevenly.
InitWindow ==
    /\ claims = filter_claims(ClaimsPlain)
    /\ relationships = filter_relationships(RelsBuckets)
    /\ assignments = EmptyMap
    /\ completed = {}
    /\ unit_to_claim = EmptyMap
    /\ claim_to_unit = EmptyMap
    /\ unit_to_doc_keys = EmptyMap
    /\ active_dc_keys = {}
    /\ units = EmptyMap
    /\ assigned_by = EmptyMap
    /\ findings = << >>
    /\ call = [op |-> "init"]
    /\ ret = [raised |-> "", unit_id |-> 0]
    /\ threads = AllIdle
    /\ now = 0

SpecWindow == InitWindow /\ [][Next]_vars

\* ------------------------------------------------------------------------
\* Calls from several threads.  Nothing in the generator or the validation
\* layer takes a lock, so a thread may be descheduled between the
\* statements of a method.  Each method is cut once, between the last test
\* it makes of the shared state and its first write to it.
\* ------------------------------------------------------------------------
InCall(t, pc) == threads[t].pc = pc

\* Units and findings that threads standing before their write will add.
PendingUnits == Cardinality({t \in Threads : InCall(t, "register")})

PendingFindings == Cardinality({t \in Threads : InCall(t, "store")})

Finished(t, result, out) ==
    threads' = [threads EXCEPT ![t].pc = "idle", ![t].result = result, ![t].out = out]

\* mark_unit_assigned up to and including the test of the current worker.
AssignCheck(t, unit_id, worker_id) ==
    /\ InCall(t, "idle")
    /\ \E out \in {mark_unit_assigned(Ledger, unit_id, worker_id)} :
          threads' = [threads EXCEPT ![t] =
              [pc |-> IF out.raised = "" THEN "assign_write" ELSE "idle",
               op |-> "mark_unit_assigned",
               arg |-> [unit_id |-> unit_id, worker_id |-> worker_id],
               seen |-> [none |-> 0],
               result |-> IF out.raised = "" THEN "none" ELSE out.raised,
               out |-> 0]]
    /\ UNCHANGED <<inputs, now, ledger, assigned_by, findings, call, ret>>

\* mark_unit_assigned: self._assignments[unit_id] = worker_id
AssignWrite(t) ==
    /\ InCall(t, "assign_write")
    /\ assignments' = Put(assignments, threads[t].arg.unit_id, threads[t].arg.worker_id)
    /\ Finished(t, "ok", threads[t].arg.unit_id)
    /\ UNCHANGED <<inputs, now, completed, unit_to_claim, claim_to_unit, unit_to_doc_keys,
                   active_dc_keys, units, assigned_by, findings, call, ret>>

\* validate_result up to and including the deduplication query.
ValidateQuery(t, sub) ==
    /\ InCall(t, "idle")
    /\ Len(findings) + PendingFindings < MaxFindings
    /\ scan_for_pii(serialise_result(sub)) = << >>
    /\ verify_provenance(sub.cited_eftas) = << >>
    /\ \E dedup \in {check_deduplication(sub.unit_id)} :
          threads' = [threads EXCEPT ![t] =
              [pc |-> IF dedup.error = << >> THEN "store" ELSE "idle",
               op |-> "validate_result",
               arg |-> [unit_id |-> sub.unit_id, sub |-> sub],
               seen |-> [none |-> 0],
               result |-> IF dedup.error = << >> THEN "none" ELSE "rejected",
               out |-> dedup.existing_id]]
    /\ UNCHANGED <<inputs, now, ledger, assigned_by, findings, call, ret>>

\* validate_result: _store_finding(result, "accepted")
ValidateStore(t) ==
    /\ InCall(t, "store")
    /\ \E out \in {Accept(threads[t].arg.sub)} :
          /\ findings' = out.rows
          /\ Finished(t, IF out.raised = "" THEN "accepted" ELSE out.raised,
                      out.result.finding_id)
    /\ UNCHANGED <<inputs, now, ledger, assigned_by, call, ret>>

\* generate_unit up to the choice of the claim or of the window.
GenerateCheck(t, unit_type) ==
    /\ InCall(t, "idle")
    /\ Cardinality(DOMAIN assignments) + PendingUnits < MaxUnits
    /\ \E seen \in {IF unit_type = "verify_finding"
                    THEN [ok |-> FirstFreeClaim(Ledger) # 0, i |-> FirstFreeClaim(Ledger)]
                    ELSE select_time_window(relationships, active_dc_keys)} :
          threads' = [threads EXCEPT ![t] =
              [pc |-> IF seen.ok THEN "register" ELSE "idle",
               op |-> "generate_unit",
               arg |-> [unit_id |-> 0, unit_type |-> unit_type],
               seen |-> seen,
               result |-> IF seen.ok THEN "none" ELSE "NoAvailableUnitsError",
               out |-> 0]]
    /\ UNCHANGED <<inputs, now, ledger, assigned_by, findings, call, ret>>

\* generate_unit: build of the unit and registration in the ledger.
GenerateRegister(t) ==
    /\ InCall(t, "register")
    /\ \E out \in {IF threads[t].arg.unit_type = "verify_finding"
                   THEN RegisterVerifyFinding(Ledger, claims[threads[t].seen.i])
                   ELSE RegisterDecisionChain(Ledger, threads[t].seen)} :
          /\ SetLedger(out.L)
          /\ Finished(t, IF out.raised = "" THEN "ok" ELSE out.raised, out.unit_id)
    /\ UNCHANGED <<inputs, now, assigned_by, findings, call, ret>>

\* What the threads submit: clean results with a known citation.
ThreadSubmissions ==
    {Submission(u, "worker-A", Result(CleanText, << >>), <<Efta(1)>>, "verify_finding") :
        u \in UnitIds}

InitThreads ==
    /\ claims = filter_claims(ClaimsPlain)
    /\ relationships = filter_relationships(SameDayRecords(DC_BATCH_MIN))
    /\ assignments = EmptyMap
    /\ completed = {}
    /\ unit_to_claim = EmptyMap
    /\ claim_to_unit = EmptyMap
    /\ unit_to_doc_keys = EmptyMap
    /\ active_dc_keys = {}
    /\ units = EmptyMap
    /\ assigned_by = EmptyMap
    /\ findings = << >>
    /\ call = [op |-> "init"]
    /\ ret = [raised |-> "", unit_id |-> 0]
    /\ threads = AllIdle
    /\ now = 0

NextThreads ==
    \E t \in Threads :
        \/ \E u \in UnitIds, w \in Workers : AssignCheck(t, u, w)
        \/ AssignWrite(t)
        \/ \E sub \in ThreadSubmissions : ValidateQuery(t, sub)
        \/ ValidateStore(t)
        \/ \E unit_type \in UnitTypes : GenerateCheck(t, unit_type)
        \/ GenerateRegister(t)

SpecThreads == InitThreads /\ [][NextThreads]_vars

\* ------------------------------------------------------------------------
\* Properties of the generator's ledger (checked under Spec)
\* ------------------------------------------------------------------------
\* Units that were generated and are not completed.
LiveUnits == (DOMAIN units) \ completed

DocIds(u) == {units[u].data[i].efta_number : i \in DOMAIN units[u].data}

IsAssignCall(c, u) == c.op = "mark_unit_assigned" /\ c.unit_id = u

\* C1: at every moment no two non-completed units are built from the same
\* source claim, and no two non-completed decision_chain units contain the
\* same document id.
C1_NoSharedSource ==
    \A u1 \in LiveUnits : \A u2 \in LiveUnits \ {u1} :
        /\ (u1 \in DOMAIN unit_to_claim /\ u2 \in DOMAIN unit_to_claim)
               => unit_to_claim[u1].claim_id # unit_to_claim[u2].claim_id
        /\ (units[u1].type = "decision_chain" /\ units[u2].type = "decision_chain")
               => DocIds(u1) \cap DocIds(u2) = {}

\* Two decision_chain units are live at once, cut from records in which
\* documents of the first unit occur again after its batch.
C1_Witness ==
    \E u1 \in LiveUnits : \E u2 \in LiveUnits \ {u1} :
        /\ units[u1].type = "decision_chain"
        /\ units[u2].type = "decision_chain"
        /\ \E i \in DOMAIN relationships : \E j \in DOMAIN relationships :
              /\ i < j
              /\ relationships[i].efta_number = relationships[j].efta_number
              /\ relationships[i].efta_number \in DocIds(u1)

\* C2 as stated: once mark_unit_assigned(X, A) has succeeded, every later
\* mark_unit_assigned(X, B) fails with "already assigned" and X is still
\* bound to A.  A call on X is a later one when it failed or names a
\* worker other than the one whose assignment succeeded.
C2_Original ==
    \A u \in DOMAIN assigned_by :
        (IsAssignCall(call, u) /\ (ret.raised # "" \/ call.worker_id # assigned_by[u]))
            => /\ ret.raised = "ValueError: already assigned"
               /\ assignments[u] = assigned_by[u]

\* C2, amended: once mark_unit_assigned(X, A) has succeeded, every later
\* mark_unit_assigned(X, B) fails; while X is not completed it fails with
\* "already assigned" and X stays bound to A, and once X is completed it
\* fails with "already completed" and X has no bound worker.
C2_AssignedOnce ==
    \A u \in DOMAIN assigned_by :
        /\ assignments[u] = IF u \in completed THEN None ELSE assigned_by[u]
        /\ (IsAssignCall(call, u) /\ (ret.raised # "" \/ call.worker_id # assigned_by[u]))
               => ret.raised = IF u \in completed
                               THEN "ValueError: already completed"
                               ELSE "ValueError: already assigned"

\* A second worker's call on a live, assigned unit has just been refused.
C2_Witness ==
    \E u \in DOMAIN assigned_by :
        /\ u \notin completed
        /\ IsAssignCall(call, u)
        /\ call.worker_id # assigned_by[u]
        /\ ret.raised = "ValueError: already assigned"
        /\ assignments[u] = assigned_by[u]

\* C3: completion is terminal.  A successful mark_unit_complete(X) puts X
\* into the completed set, X never leaves it, and every mark_unit_assigned
\* on a completed X fails with "already completed" and changes nothing,
\* whether or not X had been assigned before.
C3_CompletionTerminal ==
    [][ /\ (call'.op = "mark_unit_complete" /\ ret'.raised = "")
            => call'.unit_id \in completed'
        /\ \A u \in completed :
              /\ u \in completed'
              /\ IsAssignCall(call', u)
                    => /\ ret'.raised = "ValueError: already completed"
                       /\ assignments' = assignments ]_vars

\* An assignment of a completed unit that a worker held before its
\* completion has just been refused.
C3_Witness ==
    \E u \in completed \cap DOMAIN assigned_by :
        /\ IsAssignCall(call, u)
        /\ ret.raised = "ValueError: already completed"
        /\ assignments[u] = None

IsGenerateCall(c, unit_type) == c.op = "generate_unit" /\ c.unit_type = unit_type

DecisionChainUnits == {u \in DOMAIN units : units[u].type = "decision_chain"}

\* C11: every decision_chain unit generate_unit has returned, in any ledger
\* state, has between 20 and 50 document refs, its time_window_end is its
\* time_window_start plus 30 days, and every ref's date lies within the
\* window; a generate_unit call that raises returns no unit.
C11_BatchShape ==
    /\ \A u \in DecisionChainUnits :
          /\ DC_BATCH_MIN <= Len(units[u].data)
          /\ Len(units[u].data) <= DC_BATCH_MAX
          /\ units[u].time_window_end = units[u].time_window_start + DC_WINDOW_DAYS
          /\ \A i \in DOMAIN units[u].data :
                /\ units[u].time_window_start <= units[u].data[i].date.day
                /\ units[u].data[i].date.day <= units[u].time_window_end
    /\ (IsGenerateCall(call, "decision_chain") /\ ret.raised # "")
          => ret.unit_id \notin DOMAIN units

\* generate_unit has just returned a decision_chain unit of the minimum
\* size whose refs spread over several days.
C11_Witness ==
    /\ IsGenerateCall(call, "decision_chain")
    /\ ret.raised = ""
    /\ Len(units[ret.unit_id].data) = DC_BATCH_MIN
    /\ \E i \in DOMAIN units[ret.unit_id].data :
          units[ret.unit_id].data[i].date.day > units[ret.unit_id].time_window_start

IsCompleteCall(c) == c.op = "mark_unit_complete"

\* The document ids a unit keeps locked: those of its refs while it is not
\* completed.
HeldDocs(u) == IF u \in completed THEN {} ELSE DocIds(u)

\* The claim ids whose slot a unit holds.
HeldClaims(u) == {cid \in DOMAIN claim_to_unit : claim_to_unit[cid] = u}

\* C18: mark_unit_complete(X) on a registered unit adds X to completed,
\* clears X's worker binding, frees the claim slot X held and removes
\* exactly X's document ids from the locked set, so that the claim and the
\* documents are open to the next generate_unit, whose unit has a new id.
C18_ReleaseOnCompletion ==
    [][ /\ (IsCompleteCall(call') /\ call'.unit_id \in DOMAIN assignments)
            => /\ ret'.raised = ""
               /\ completed' = completed \cup {call'.unit_id}
               /\ assignments' = [assignments EXCEPT ![call'.unit_id] = None]
               /\ DOMAIN claim_to_unit' = (DOMAIN claim_to_unit) \ HeldClaims(call'.unit_id)
               /\ \A cid \in DOMAIN claim_to_unit' : claim_to_unit'[cid] = claim_to_unit[cid]
               /\ active_dc_keys' = active_dc_keys \ HeldDocs(call'.unit_id)
               /\ units' = units
        /\ (call'.op = "generate_unit" /\ ret'.raised = "")
            => /\ ret'.unit_id \notin DOMAIN assignments
               /\ ret'.unit_id \in DOMAIN units' ]_vars

\* generate_unit has just returned a unit, under a new id, with the
\* documents of a completed decision_chain unit.
C18_Witness ==
    /\ IsGenerateCall(call, "decision_chain")
    /\ ret.raised = ""
    /\ ret.unit_id \in LiveUnits
    /\ \E x \in completed :
          /\ x # ret.unit_id
          /\ units[x].type = "decision_chain"
          /\ DocIds(x) = DocIds(ret.unit_id)

\* C19: mark_unit_complete on a unit that is already completed returns
\* normally and changes nothing in the ledger; the claim slot and the
\* locked documents of a newer live unit built from the same claim or
\* documents stay as they are.
C19_IdempotentComplete ==
    [][ (IsCompleteCall(call') /\ call'.unit_id \in completed)
            => /\ ret'.raised = ""
               /\ UNCHANGED ledger ]_vars

\* mark_unit_complete was repeated on a completed unit while a newer unit
\* built from the same claim is live and holds the claim's slot.
C19_Witness ==
    /\ IsCompleteCall(call)
    /\ ret.raised = ""
    /\ call.unit_id \in completed
    /\ \E u \in LiveUnits \cap DOMAIN unit_to_claim :
          /\ call.unit_id \in DOMAIN unit_to_claim
          /\ unit_to_claim[u].claim_id = unit_to_claim[call.unit_id].claim_id
          /\ HeldClaims(u) # {}

\* C20: state-machine violations are reported and leave the ledger as it
\* was: mark_unit_assigned and mark_unit_complete on a unit_id that was
\* never generated raise KeyError, mark_unit_assigned on an assigned or
\* completed unit raises ValueError.
C20_ViolationsReported ==
    [][ /\ ((IsCompleteCall(call') \/ call'.op = "mark_unit_assigned")
               /\ call'.unit_id \notin DOMAIN assignments)
            => /\ ret'.raised = "KeyError"
               /\ UNCHANGED ledger
        /\ (/\ call'.op = "mark_unit_assigned"
            /\ call'.unit_id \in DOMAIN assignments
            /\ (call'.unit_id \in completed \/ assignments[call'.unit_id] # None))
            => /\ ret'.raised \in {"ValueError: already assigned",
                                   "ValueError: already completed"}
               /\ UNCHANGED ledger ]_vars

\* An unknown unit_id has just been refused by a ledger that holds a bound
\* unit.
C20_Witness ==
    /\ call.op = "mark_unit_assigned"
    /\ call.unit_id \notin DOMAIN assignments
    /\ ret.raised = "KeyError"
    /\ \E u \in DOMAIN assignments : assignments[u] # None

C26_Original ==
    \A u \in LiveUnits :
        (assignments[u] # None /\ now > units[u].deadline)
            => \/ \E w \in Workers \ {assignments[u]} :
                     mark_unit_assigned(Ledger, u, w).raised = ""
               \/ \E t \in UnitTypes : \E out \in {generate_unit(Ledger, t)} :
                     /\ out.raised = ""
                     /\ \/ /\ u \in DOMAIN unit_to_claim
                           /\ out.unit_id \in DOMAIN out.L.unit_to_claim
                           /\ out.L.unit_to_claim[out.unit_id].claim_id
                                  = unit_to_claim[u].claim_id
                        \/ /\ out.unit_id \in DOMAIN out.L.unit_to_doc_keys
                           /\ out.L.unit_to_doc_keys[out.unit_id] \cap DocIds(u) # {}

\* The claims, by position, that a unit of the set U was built from.
ClaimsOf(U) ==
    {i \in DOMAIN claims :
        \E u \in U \cap DOMAIN unit_to_claim :
            unit_to_claim[u].claim_id = claims[i].claim_id}

C30_Original ==
    LET usable == {j \in DOMAIN relationships :
                      /\ HasDocRef(relationships[j])
                      /\ DateParses(relationships[j].date)}
        dataset_min == SetMin({relationships[j].date.day : j \in usable})
    IN  \A u \in DecisionChainUnits : \A i \in DOMAIN units[u].data :
            units[u].time_window_start
                = dataset_min
                  + ((units[u].data[i].date.day - dataset_min) \div DC_WINDOW_DAYS)
                    * DC_WINDOW_DAYS

\* C33: the get_status counts follow the ledger.  total_generated grows
\* by one with every generate_unit call that returns a unit, is the number
\* of units returned so far and never decreases; total_completed is the
\* number of distinct completed units and never decreases; total_assigned
\* is the number of units that have a bound worker and are not completed.
C33_StatusFollowsLedger ==
    [][ /\ get_status(Ledger').total_generated
              = get_status(Ledger).total_generated
                + (IF call'.op = "generate_unit" /\ ret'.raised = "" THEN 1 ELSE 0)
        /\ get_status(Ledger').total_generated = Cardinality(DOMAIN units')
        /\ get_status(Ledger').total_completed >= get_status(Ledger).total_completed
        /\ get_status(Ledger').total_completed = Cardinality(completed')
        /\ get_status(Ledger').total_completed
              = get_status(Ledger).total_completed
                + (IF /\ IsCompleteCall(call')
                      /\ ret'.raised = ""
                      /\ call'.unit_id \notin completed THEN 1 ELSE 0)
        /\ get_status(Ledger').total_assigned
              = Cardinality({u \in DOMAIN units' :
                                assignments'[u] \in Workers /\ u \notin completed'}) ]_vars

\* Two units were generated, one of them is bound to a worker and the
\* other was bound and is completed.
C33_Witness ==
    /\ get_status(Ledger).total_generated = 2
    /\ get_status(Ledger).total_assigned = 1
    /\ get_status(Ledger).total_completed = 1
    /\ \E u \in completed : u \in DOMAIN assigned_by

\* C35: lock bookkeeping is exact.  Every non-completed decision_chain
\* unit has its consumed document ids on record, the locked set is the
\* union of these records (it holds every one of them and nothing else),
\* and the records of two different live units have no document in common.
C35_LocksExact ==
    LET live == DecisionChainUnits \ completed
    IN  /\ \A u \in live :
              /\ u \in DOMAIN unit_to_doc_keys
              /\ unit_to_doc_keys[u] = {units[u].data[i].efta_number :
                                           i \in DOMAIN units[u].data}
        /\ active_dc_keys = UNION {unit_to_doc_keys[u] : u \in live}
        /\ \A u, v \in live :
              u # v => unit_to_doc_keys[u] \cap unit_to_doc_keys[v] = {}

\* One decision_chain unit has been completed while another one is live
\* and holds its documents.
C35_Witness ==
    /\ call.op = "mark_unit_complete"
    /\ ret.raised = ""
    /\ call.unit_id \in DecisionChainUnits
    /\ \E v \in DecisionChainUnits \ completed :
          /\ unit_to_doc_keys[v] # {}
          /\ unit_to_doc_keys[v] \subseteq active_dc_keys

\* C36: no completed unit has a bound worker.  Every unit_id in completed
\* is a key of assignments and its entry is None, whether the unit was
\* bound to a worker before its completion or not, and whatever was
\* called after it.
C36_CompletedUnbound ==
    /\ completed \subseteq DOMAIN assignments
    /\ \A u \in completed : assignments[u] = None

\* A unit that a worker was bound to has been completed, and a later
\* mark_unit_assigned on it has been refused.
C36_Witness ==
    /\ call.op = "mark_unit_assigned"
    /\ ret.raised # ""
    /\ call.unit_id \in completed
    /\ call.unit_id \in DOMAIN assigned_by
    /\ assignments[call.unit_id] = None

\* C37: with distinct claim ids, every entry claim_id -> unit_id of the
\* claim slot map points to a registered unit that is not completed and
\* that was built from the claim with that claim_id.
C37_SlotsPointAtLiveUnits ==
    (\A i, j \in DOMAIN claims : claims[i].claim_id = claims[j].claim_id => i = j)
        => \A cid \in DOMAIN claim_to_unit :
              LET u == claim_to_unit[cid]
              IN  /\ u \in DOMAIN assignments
                  /\ u \in DOMAIN units
                  /\ u \notin completed
                  /\ u \in DOMAIN unit_to_claim
                  /\ unit_to_claim[u].claim_id = cid
                  /\ units[u].type = "verify_finding"
                  /\ units[u].claim = unit_to_claim[u].claim

\* With distinct claim ids, one claim's unit has been completed and its
\* slot is gone while the slot of another claim points at a live unit.
C37_Witness ==
    /\ \A i, j \in DOMAIN claims : claims[i].claim_id = claims[j].claim_id => i = j
    /\ call.op = "mark_unit_complete"
    /\ ret.raised = ""
    /\ call.unit_id \in DOMAIN unit_to_claim
    /\ unit_to_claim[call.unit_id].claim_id \notin DOMAIN claim_to_unit
    /\ DOMAIN claim_to_unit # {}

LiveDecisionChainUnits == DecisionChainUnits \ completed

AllDocs == {relationships[i].efta_number : i \in DOMAIN relationships}

\* C12: with exactly 19 distinct same-day records every
\* generate_unit('decision_chain') raises NoAvailableUnitsError and leaves
\* the ledger alone; with exactly 20 it returns a unit holding all 20 refs
\* when no decision_chain unit is live, and raises NoAvailableUnitsError as
\* long as such a unit is not completed.
C12_MinimumOccupancy ==
    [][ IsGenerateCall(call', "decision_chain")
            => /\ Len(relationships) = DC_BATCH_MIN - 1
                     => /\ ret'.raised = "NoAvailableUnitsError"
                        /\ UNCHANGED ledger
               /\ Len(relationships) = DC_BATCH_MIN
                     => IF LiveDecisionChainUnits = {}
                        THEN /\ ret'.raised = ""
                             /\ ret'.unit_id \notin DOMAIN units
                             /\ Len(units'[ret'.unit_id].data) = DC_BATCH_MIN
                             /\ {units'[ret'.unit_id].data[i].efta_number :
                                    i \in 1..DC_BATCH_MIN} = AllDocs
                        ELSE /\ ret'.raised = "NoAvailableUnitsError"
                             /\ UNCHANGED ledger ]_vars

\* With 20 records, a further generate_unit('decision_chain') has just been
\* refused while the unit holding all 20 refs is live.
C12_Witness ==
    /\ Len(relationships) = DC_BATCH_MIN
    /\ IsGenerateCall(call, "decision_chain")
    /\ ret.raised = "NoAvailableUnitsError"
    /\ \E u \in LiveDecisionChainUnits : DocIds(u) = AllDocs

\* The documents of the records beyond the first DC_BATCH_MAX.
LeftOut == {relationships[i].efta_number : i \in (DOMAIN relationships) \ (1..DC_BATCH_MAX)}

\* C13 as stated: with 60 distinct same-day records the first
\* generate_unit('decision_chain') returns a unit with exactly 50 refs; while
\* a unit is live the 10 records left out are issued in no unit; and once
\* the units issued so far are completed, generate_unit('decision_chain')
\* returns a unit that contains left-out records.
C13_Original ==
    [][ (Len(relationships) = DC_BATCH_MAX + 10 /\ IsGenerateCall(call', "decision_chain"))
            => /\ DecisionChainUnits = {}
                     => /\ ret'.raised = ""
                        /\ Len(units'[ret'.unit_id].data) = DC_BATCH_MAX
               /\ LiveDecisionChainUnits # {}
                     => /\ ret'.raised = "NoAvailableUnitsError"
                        /\ UNCHANGED ledger
               /\ (DecisionChainUnits # {} /\ LiveDecisionChainUnits = {})
                     => /\ ret'.raised = ""
                        /\ \E i \in DOMAIN units'[ret'.unit_id].data :
                              units'[ret'.unit_id].data[i].efta_number \in LeftOut ]_vars

\* What the generator does with the records left out: no unit it ever
\* returns contains one of them.
C13_LeftOutNeverIssued ==
    \A u \in DecisionChainUnits : DocIds(u) \cap LeftOut = {}

\* ------------------------------------------------------------------------
\* Properties of unit construction (checked under SpecConstruction)
\* ------------------------------------------------------------------------
\* C22: a unit that fails construction or validation is never returned
\* and never registered: when generate_unit raises a construction error
\* no unit comes back and the ledger is as it was (no new entry in
\* assignments, no claim slot bound, no document id locked), so every
\* registered unit is one that validates.
C22_FailedBuildNotRegistered ==
    [][ /\ (call'.op = "generate_unit" /\ ret'.raised = "ValueError")
            => /\ ret'.unit_id = 0
               /\ UNCHANGED ledger
        /\ \A u \in DOMAIN assignments' :
              /\ u \in DOMAIN units'
              /\ u \in DOMAIN unit_to_claim' => VerifyBuildable(unit_to_claim'[u])
              /\ units'[u].type = "decision_chain" => ValidDecisionChainInput(units'[u]) ]_vars

\* generate_unit has just raised a construction error on a ledger that
\* holds a live verify_finding unit bound to a worker.
C22_Witness ==
    /\ IsGenerateCall(call, "verify_finding")
    /\ ret.raised = "ValueError"
    /\ \E u \in LiveUnits : HeldClaims(u) # {} /\ assignments[u] # None

\* ------------------------------------------------------------------------
\* Properties of the corpus filter (checked under SpecCorpus)
\* ------------------------------------------------------------------------
\* C28: in every ledger state no unit is built from a claim or a
\* relationship record of the media dataset (dataset 10), or from one
\* whose document id ends with an image, video or audio suffix; such
\* records are removed when the generator is built and are never in the
\* pool afterwards.
C28_NoMediaSource ==
    LET MediaClaim(c) == \/ DS10_DATASET \in Range(c.primary_datasets)
                         \/ \E e \in Range(c.cited_eftas) : e.fmt = "media"
        MediaRecord(r) == \/ r.dataset = DS10_DATASET
                          \/ r.efta_number.fmt = "media"
                          \/ r.efta_source.fmt = "media"
    IN  /\ \A i \in DOMAIN claims : ~MediaClaim(claims[i])
        /\ \A i \in DOMAIN relationships : ~MediaRecord(relationships[i])
        /\ \A u \in DOMAIN units :
              /\ \A i \in DOMAIN ClaimsMedia :
                    MediaClaim(ClaimsMedia[i])
                        => /\ units[u].claim # ClaimsMedia[i].claim
                           /\ u \in DOMAIN unit_to_claim
                                => unit_to_claim[u] # ClaimsMedia[i]
              /\ \A i \in DOMAIN RelsMedia :
                    MediaRecord(RelsMedia[i])
                        => RelsMedia[i].efta_number \notin DocIds(u)
              /\ \A i \in DOMAIN units[u].efta_urls :
                    units[u].efta_urls[i].ds # DS10_DATASET
              /\ \A i \in DOMAIN units[u].data :
                    units[u].data[i].url.ds # DS10_DATASET

\* A verify_finding unit of the claim behind the two media claims and a
\* decision_chain unit with the documents on both sides of the media
\* records have been returned.
C28_Witness ==
    /\ \E u \in DOMAIN unit_to_claim : unit_to_claim[u] = ClaimsMedia[3]
    /\ \E u \in DOMAIN units :
          /\ units[u].type = "decision_chain"
          /\ {Efta(10), Efta(11)} \subseteq DocIds(u)

IsValidateCall(c) == c.op = "validate_result"

\* The submission text carries personal data: the worker id is a social
\* security number or the payload quotes one.
HasPii(worker_id, result) == worker_id = "123-45-6789" \/ result.reasoning = PiiText

\* Positions of the citation list whose id the reference data does not know.
UnknownCited(cited) ==
    {i \in DOMAIN cited :
        /\ cited[i] \notin EntityIds
        /\ ~(/\ cited[i].fmt = "efta"
             /\ \E r \in EftaMapping :
                   r.range_start <= cited[i].n /\ cited[i].n <= r.range_end)}

\* Rows of the findings table that are accepted findings of a unit.
AcceptedRows(u) ==
    {i \in DOMAIN findings : findings[i].unit_id = u /\ findings[i].status = "accepted"}

AcceptedIds(u) == {findings[i].finding_id : i \in AcceptedRows(u)}

\* PII-free submission with known citations for a unit that already has an
\* accepted finding.
IsDuplicate(sub) ==
    /\ ~HasPii(sub.worker_id, sub.result)
    /\ UnknownCited(sub.cited_eftas) = {}
    /\ AcceptedIds(sub.unit_id) # {}

C5_NoAcceptedPii ==
    \A i \in DOMAIN findings :
        findings[i].status = "accepted"
            => ~HasPii(findings[i].worker_id, findings[i].result_json)

\* A submission whose only personal data is its worker id sits in the
\* table, quarantined.
C5_Witness ==
    \E i \in DOMAIN findings :
        /\ findings[i].worker_id = "123-45-6789"
        /\ findings[i].result_json.reasoning = CleanText
        /\ findings[i].status = "quarantined"

\* C6: first accepted wins.  After any sequence of validate_result calls on
\* a table that started with at most one accepted row per unit_id, the
\* table holds at most one accepted row per unit_id.
C6_OneAcceptedPerUnit ==
    \A u \in UnitIds : Cardinality(AcceptedRows(u)) <= 1

\* A second clean submission for a unit was turned away while another
\* unit's finding was accepted next to it.
C6_Witness ==
    /\ \A u \in UnitIds : Cardinality(AcceptedRows(u)) = 1
    /\ IsValidateCall(call)
    /\ ~HasPii(call.sub.worker_id, call.sub.result)
    /\ ret.raised = ""
    /\ ~ret.result.accepted

\* C7 as stated: a PII-free submission with known citations for a unit that
\* already has an accepted finding gets accepted=True with the existing
\* finding_id, and no row is written.
C7_Original ==
    [][ (IsValidateCall(call') /\ IsDuplicate(call'.sub))
            => /\ ret'.raised = ""
               /\ ret'.result.accepted = TRUE
               /\ ret'.result.finding_id \in AcceptedIds(call'.sub.unit_id)
               /\ findings' = findings ]_vars

\* C7, amended: a PII-free submission with known citations for a unit that
\* already has an accepted finding gets accepted=False with the existing
\* finding_id, and no row is written.
C7_DedupStep ==
    [][ (IsValidateCall(call') /\ IsDuplicate(call'.sub))
            => /\ ret'.raised = ""
               /\ ret'.result.accepted = FALSE
               /\ ret'.result.finding_id \in AcceptedIds(call'.sub.unit_id)
               /\ findings' = findings ]_vars

\* The same worker's submission was validated a second time and answered
\* with the id of the row its first validation wrote.
C7_Witness ==
    /\ IsValidateCall(call)
    /\ IsDuplicate(call.sub)
    /\ ret.raised = ""
    /\ \E i \in AcceptedRows(call.sub.unit_id) :
          /\ findings[i].worker_id = call.sub.worker_id
          /\ findings[i].finding_id = ret.result.finding_id

\* C9: validate_result for a unit that already has an accepted finding
\* (submission PII-free, citations known) is rejected: accepted=False,
\* finding_id is the existing accepted finding's id, the errors list has one
\* message and it names that id, and no row is added.
C9_DuplicateRejected ==
    [][ (IsValidateCall(call') /\ IsDuplicate(call'.sub))
            => /\ ret'.raised = ""
               /\ ~ret'.result.accepted
               /\ ~ret'.result.pii_detected
               /\ AcceptedIds(call'.sub.unit_id) = {ret'.result.finding_id}
               /\ Len(ret'.result.errors) = 1
               /\ ret'.result.errors[1].kind = "duplicate"
               /\ ret'.result.errors[1].finding_id = ret'.result.finding_id
               /\ Len(findings') = Len(findings) ]_vars

\* A submission citing a known document was rejected as the duplicate of a
\* finding whose id differs from the unit's id.
C9_Witness ==
    /\ IsValidateCall(call)
    /\ IsDuplicate(call.sub)
    /\ call.sub.cited_eftas # << >>
    /\ ret.raised = ""
    /\ Len(ret.result.errors) = 1
    /\ ret.result.errors[1].kind = "duplicate"
    /\ ret.result.finding_id # call.sub.unit_id

\* C10: for a PII-free submission with at least one unknown cited id,
\* validate_result returns accepted=False and finding_id=None with exactly
\* one error per unknown entry of the citation list, in list order, and
\* leaves the findings table unchanged; a PII-free submission with an empty
\* citation list gets no provenance error.
C10_ProvenanceRejection ==
    [][ (IsValidateCall(call') /\ ~HasPii(call'.sub.worker_id, call'.sub.result))
            => /\ ret'.raised = ""
               /\ UnknownCited(call'.sub.cited_eftas) # {}
                     => /\ ~ret'.result.accepted
                        /\ ~ret'.result.pii_detected
                        /\ ret'.result.finding_id = 0
                        /\ findings' = findings
                        /\ ret'.result.errors =
                               [k \in DOMAIN ret'.result.errors |->
                                   [kind |-> "provenance",
                                    efta |-> SelectSeq(call'.sub.cited_eftas,
                                                 LAMBDA e : UnknownCited(<<e>>) # {})[k]]]
                        /\ Len(ret'.result.errors) =
                               Cardinality(UnknownCited(call'.sub.cited_eftas))
               /\ call'.sub.cited_eftas = << >>
                     => \A k \in DOMAIN ret'.result.errors :
                            ret'.result.errors[k].kind # "provenance" ]_vars

\* A submission citing two unknown documents around a known one was
\* rejected with two provenance errors.
C10_Witness ==
    /\ IsValidateCall(call)
    /\ ~HasPii(call.sub.worker_id, call.sub.result)
    /\ Cardinality(UnknownCited(call.sub.cited_eftas)) = 2
    /\ Cardinality(DOMAIN call.sub.cited_eftas) = 3
    /\ ret.raised = ""
    /\ Len(ret.result.errors) = 2
    /\ ret.result.finding_id = 0

C34_StoreIdempotent ==
    [][ (/\ call'.op = "store_finding"
         /\ \E i \in DOMAIN findings : findings[i].finding_id = call'.finding.finding_id)
            => /\ ret'.raised = ""
               /\ ret'.finding_id = call'.finding.finding_id
               /\ findings' = findings ]_vars

\* A finding has just been stored under the id of a stored row that has
\* another status and another payload.
C34_Witness ==
    /\ call.op = "store_finding"
    /\ ret.raised = ""
    /\ \E i \in DOMAIN findings :
          /\ findings[i].finding_id = call.finding.finding_id
          /\ findings[i].status # call.finding.status
          /\ findings[i].result_json # call.finding.result_json

\* ------------------------------------------------------------------------
\* Properties of the distribution API (checked under SpecApi)
\* ------------------------------------------------------------------------
IsPostCall(c) == c.op = "post_result"

\* A clean request body: PII-free, every citation known.
CleanBody(body) ==
    /\ ~HasPii(body.worker_id, body.result)
    /\ UnknownCited(body.result.citations) = {}

RowsOf(rows, u) == {i \in DOMAIN rows : rows[i].unit_id = u}

C23_Original ==
    [][ (/\ IsPostCall(call')
         /\ call'.body.unit_id \in DOMAIN assignments
         /\ HasPii(call'.body.worker_id, call'.body.result))
            => /\ ret'.status = 200
               /\ ret'.pii_detected
               /\ ~ret'.accepted ]_vars

\* C24: post_result completes a unit exactly when its submission is
\* accepted: after an accepted submission the unit is in completed; after
\* a rejected or quarantined submission the unit is not completed, it still
\* holds the slot of its claim and its document ids are still locked.
C24_CompletesOnAcceptance ==
    [][ (IsPostCall(call') /\ ret'.status = 200)
            => /\ ret'.accepted => call'.body.unit_id \in completed'
               /\ ~ret'.accepted
                    => /\ call'.body.unit_id \notin completed'
                       /\ call'.body.unit_id \in DOMAIN unit_to_claim'
                            => /\ unit_to_claim'[call'.body.unit_id].claim_id
                                      \in DOMAIN claim_to_unit'
                               /\ claim_to_unit'[unit_to_claim'[call'.body.unit_id].claim_id]
                                      = call'.body.unit_id
                       /\ call'.body.unit_id \in DOMAIN unit_to_doc_keys
                            => /\ call'.body.unit_id \in DOMAIN unit_to_doc_keys'
                               /\ unit_to_doc_keys'[call'.body.unit_id] \subseteq active_dc_keys' ]_vars

\* A submission with an unknown citation has just been rejected and its
\* unit is live and holds the slot of its claim.
C24_Witness ==
    /\ IsPostCall(call)
    /\ ret.status = 200
    /\ ~ret.accepted
    /\ ~ret.pii_detected
    /\ call.body.unit_id \in LiveUnits
    /\ HeldClaims(call.body.unit_id) # {}

\* C25 as stated: whenever post_result answers next_unit_available=True,
\* a get_work call made immediately afterwards, with no other call in
\* between, returns a unit with available=True.
C25_Original ==
    [][ (/\ IsPostCall(call)
         /\ ret.status = 200
         /\ ret.next_unit_available
         /\ call'.op = "get_work")
            => /\ ret'.status = 200
               /\ ret'.available ]_vars

\* C31 as stated: the availability probe that post_result runs does not
\* consume a unit: the request registers no unit, binds no claim slot and
\* locks no document, so that apart from the completion of the submitted
\* unit the ledger and the get_status counts are as before the call.
C31_Original ==
    [][ (IsPostCall(call') /\ ret'.status = 200)
            => /\ DOMAIN assignments' = DOMAIN assignments
               /\ \A cid \in DOMAIN claim_to_unit' :
                     /\ cid \in DOMAIN claim_to_unit
                     /\ claim_to_unit'[cid] = claim_to_unit[cid]
               /\ active_dc_keys' \subseteq active_dc_keys
               /\ get_status(Ledger').total_generated = get_status(Ledger).total_generated ]_vars

\* C38: ledger and store stay coupled through post_result.  After any
\* sequence of GET /work and POST /result requests on a findings store
\* that started empty, every unit_id that has an accepted finding in the
\* store is registered in the ledger and is in its completed set.
C38_AcceptedImpliesCompleted ==
    \A i \in DOMAIN findings :
        findings[i].status = "accepted"
            => /\ findings[i].unit_id \in DOMAIN assignments
               /\ findings[i].unit_id \in completed

\* A POST /result has just stored an accepted finding for its unit, and
\* the store also holds a row of another status.
C38_Witness ==
    /\ call.op = "post_result"
    /\ ret.status = 200
    /\ ret.accepted
    /\ \E i \in DOMAIN findings :
          /\ findings[i].status = "accepted"
          /\ findings[i].unit_id = call.body.unit_id
          /\ findings[i].finding_id = ret.finding_id
    /\ \E j \in DOMAIN findings : findings[j].status # "accepted"

\* ------------------------------------------------------------------------
\* Properties of concurrent calls (checked under SpecThreads)
\* ------------------------------------------------------------------------
\* Thread t has returned normally from the call op on unit_id.
Succeeded(t, op, result) == threads[t].op = op /\ threads[t].pc = "idle" /\ threads[t].result = result

\* C15 as stated: two concurrent mark_unit_assigned calls on the same
\* generated, unassigned unit never both succeed.
C15_Original ==
    \A t1 \in Threads : \A t2 \in Threads \ {t1} :
        ~(/\ Succeeded(t1, "mark_unit_assigned", "ok")
          /\ Succeeded(t2, "mark_unit_assigned", "ok")
          /\ threads[t1].arg.unit_id = threads[t2].arg.unit_id)

\* C16 as stated: two concurrent validate_result calls for the same unit_id
\* (both PII-free, citations known) never both persist an accepted finding.
C16_Original ==
    \A t1 \in Threads : \A t2 \in Threads \ {t1} :
        ~(/\ Succeeded(t1, "validate_result", "accepted")
          /\ Succeeded(t2, "validate_result", "accepted")
          /\ threads[t1].arg.unit_id = threads[t2].arg.unit_id
          /\ threads[t1].out # threads[t2].out
          /\ {threads[t1].out, threads[t2].out} \subseteq AcceptedIds(threads[t1].arg.unit_id))

\* C17 as stated: two concurrent generate_unit calls never return live
\* units for the same source claim or with a common document id.
C17_Original ==
    \A t1 \in Threads : \A t2 \in Threads \ {t1} :
        (/\ Succeeded(t1, "generate_unit", "ok")
         /\ Succeeded(t2, "generate_unit", "ok")
         /\ threads[t1].out # threads[t2].out
         /\ {threads[t1].out, threads[t2].out} \subseteq LiveUnits)
            => /\ (threads[t1].out \in DOMAIN unit_to_claim
                      /\ threads[t2].out \in DOMAIN unit_to_claim)
                     => unit_to_claim[threads[t1].out].claim_id
                            # unit_to_claim[threads[t2].out].claim_id
               /\ DocIds(threads[t1].out) \cap DocIds(threads[t2].out) = {}

====
